---- MODULE Spec2Model ----
(***************************************************************************)
(* The Stage component of react-pixi (src/src/stage/index.js): a React     *)
(* class component that owns a PIXI Application, a PixiFiber root          *)
(* container, a window listener for the reconciler's redraw request and a  *)
(* media-query listener for pixel-ratio changes.                           *)
(*                                                                         *)
(* Each lifecycle method is one operator over a record `m` that holds the  *)
(* fields of one Stage instance; a step that throws (a TypeError on a      *)
(* null receiver) stops the method at that step.  The actions apply whole  *)
(* methods.                                                                *)
(***************************************************************************)
EXTENDS Integers, Sequences, FiniteSets, TLC

\* ------------------------------------------------------------------ bounds
\* the updates of the Stage in the runs over all props
MaxUpdates == 1
\* the updates of the Stage in the runs of update sequences
MaxUpdatesSeq == 2
\* the updates of each Stage in the runs with two Stages
MaxUpdatesTwo == 1
MaxRatioChanges == 1
MaxDirectCalls == 2
\* the hand-offs to the root container a Stage's commit log keeps (the latest ones)
LogWindow == 2
\* the entries of a props object handed to getCanvasProps
MaxPropsLen == 3

\* ----------------------------------------------------------------- domains
Stages == {1, 2}
Single == {1}

Trees == {"A", "B"}
\* <<width, height>>: the default size, a narrower one and a lower one
Sizes == {<<800, 600>>, <<400, 600>>, <<800, 300>>}
PixelRatios == {1, 3}

\* JavaScript `undefined` for an optional number: <<>>; a number n: <<n>>
Undefined == <<>>
Num(n) == <<n>>

\* props.options: absent, or an object with an identity (`!==` on line 183
\* compares references), an optional resolution and an optional autoDensity
NoOptions == [present |-> FALSE, id |-> 0, resolution |-> Undefined, autoDensity |-> "undefined"]
OptPlain == [present |-> TRUE, id |-> 1, resolution |-> Undefined, autoDensity |-> "undefined"]
OptRes == [present |-> TRUE, id |-> 3, resolution |-> Num(2), autoDensity |-> "undefined"]
OptNoDensity == [present |-> TRUE, id |-> 4, resolution |-> Undefined, autoDensity |-> "false"]
OptionsDomain == {NoOptions, OptPlain, OptRes, OptNoDensity}

PropsDomain ==
  {[width |-> z[1], height |-> z[2], raf |-> r, renderOnComponentChange |-> c,
    options |-> o, children |-> t] :
     z \in Sizes, r \in BOOLEAN, c \in BOOLEAN, o \in OptionsDomain, t \in Trees}

\* the props of the runs of update sequences and of direct method calls: the
\* default size, with or without an options object
SmallPropsDomain ==
  [width : {800}, height : {600}, raf : BOOLEAN, renderOnComponentChange : BOOLEAN,
   options : {NoOptions, OptRes}, children : Trees]

\* the props of the runs with two Stages: the default size and no options
TwoPropsDomain ==
  [width : {800}, height : {600}, raf : BOOLEAN, renderOnComponentChange : BOOLEAN,
   options : {NoOptions}, children : Trees]

\* the values options.resizeTo is checked with
Elements == {"window", "HTMLDivElement", "HTMLCanvasElement", "undefined", "null", "string", "object"}

\* Object.keys(propTypes)
PropTypeKeys ==
  {"width", "height", "onMount", "onUnmount", "raf", "renderOnComponentChange", "children",
   "options"}

\* Object.keys(PROPS_DISPLAY_OBJECT), from '../utils/props': some of its names
DisplayObjectKeys == {"x", "alpha"}

\* the prop names the objects handed to getCanvasProps are made of, and their values
PropNames == {"width", "children", "x", "className", "id"}
PropValues == {1, 2}

\* ----------------------------------------------------------------- helpers
\* JavaScript truthiness of an optional number
Truthy(x) == x # Undefined /\ x # Num(0)

\* options?.resolution
OptResolution(options) == IF options.present THEN options.resolution ELSE Undefined

\* options?.autoDensity
OptAutoDensity(options) == IF options.present THEN options.autoDensity ELSE "undefined"

\* hasAutoDensity = dens => dens !== false
hasAutoDensity(dens) == dens # "false"

\* this.app before componentDidMount
NullApp ==
  [state |-> "null", id |-> 0, ticker |-> FALSE, resolution |-> Undefined,
   width |-> 0, height |-> 0, interaction |-> 0, styleWidth |-> 0, styleHeight |-> 0]

\* the empty tree handed to the root container on unmount
NullTree == [type |-> "null", value |-> 0, children |-> "null"]

\* the receiver of this.app.renderer / this.app.ticker / this.app.view is
\* usable: the application exists and has not been destroyed
AppLive(m) == m.app.state = "live"

\* the commit log with one more hand-off, cut to its latest LogWindow entries
Logged(log, entry) ==
  LET all == Append(log, entry)
  IN  IF Len(all) > LogWindow THEN SubSeq(all, Len(all) - LogWindow + 1, Len(all)) ELSE all

Emit(m, e) == IF m.threw THEN m ELSE [m EXCEPT !.trace = Append(@, e)]

Throw(m) == IF m.threw THEN m ELSE [m EXCEPT !.trace = Append(@, "TypeError"), !.threw = TRUE]

\* ------------------------------------------------------- Stage's methods
\* getChildren(): <AppProvider value={this.app}>{children}</AppProvider>
getChildren(m) == [type |-> "AppProvider", value |-> m.app.id, children |-> m.props.children]

\* the reconciler's redraw request after a commit (the process-wide
\* '__REACT_PIXI_REQUEST_RENDER__' event is raised for the committing root)
requestExternalRedraw(m) == [m EXCEPT !.pending = TRUE]

\* PixiFiber.updateContainer(tree, this.mountNode, this)
updateContainer(m, tree) ==
  IF m.threw THEN m
  ELSE IF m.mountNode = <<>> THEN Throw(Emit(m, "updateContainer"))
  ELSE requestExternalRedraw(
         [Emit(m, "updateContainer") EXCEPT
            !.commitLog = Logged(@, [container |-> m.mountNode[1], tree |-> tree]),
            !.commits = @ + 1])

\* this.mountNode = PixiFiber.createContainer(this.app.stage)
createContainer(m, fresh) ==
  IF m.threw THEN m
  ELSE IF m.app.state = "null" THEN Throw(Emit(m, "createContainer"))
  ELSE [Emit(m, "createContainer") EXCEPT !.mountNode = <<fresh>>, !.created = @ + 1]

\* resetInteractionManager()
resetInteractionManager(m) ==
  IF m.threw THEN m
  ELSE IF ~AppLive(m) THEN Throw(m)
  ELSE [Emit(Emit(m, "interaction.destroy"), "new InteractionManager") EXCEPT
          !.app.interaction = @ + 1]

\* this.app.renderer.resolution = r
setResolution(m, r) ==
  IF m.threw THEN m
  ELSE IF ~AppLive(m) THEN Throw(m)
  ELSE [Emit(m, "renderer.resolution=") EXCEPT !.app.resolution = r]

\* this.app.renderer.resize(width, height)
resize(m) ==
  IF m.threw THEN m
  ELSE IF ~AppLive(m) THEN Throw(m)
  ELSE [Emit(m, "renderer.resize") EXCEPT
          !.app.width = m.props.width, !.app.height = m.props.height]

\* this.app.view.style.width/height = ... + 'px'
setStyle(m) ==
  IF m.threw THEN m
  ELSE IF ~AppLive(m) THEN Throw(m)
  ELSE [Emit(m, "view.style=") EXCEPT
          !.app.styleWidth = m.props.width, !.app.styleHeight = m.props.height]

\* updateSize = () => { ... }
updateSize(m, devicePixelRatio) ==
  LET m0 == Emit(m, "updateSize")
      m1 == IF ~Truthy(OptResolution(m.props.options))
              THEN resetInteractionManager(setResolution(m0, Num(devicePixelRatio)))
              ELSE m0
      m2 == resize(m1)
      m3 == IF hasAutoDensity(OptAutoDensity(m.props.options)) THEN setStyle(m2) ELSE m2
  IN  m3

\* renderStage = () => { ... }
renderStage(m) ==
  LET m0 == Emit(m, "renderStage")
  IN  IF m0.threw THEN m0
      ELSE IF ~m.props.raf /\ m.props.renderOnComponentChange
        THEN IF AppLive(m0) THEN Emit(m0, "renderer.render") ELSE Throw(m0)
        ELSE m0

\* this.app.ticker[raf ? 'start' : 'stop']()
setTicker(m) ==
  IF m.threw THEN m
  ELSE IF ~AppLive(m) THEN Throw(m)
  ELSE [Emit(m, IF m.props.raf THEN "ticker.start" ELSE "ticker.stop") EXCEPT
          !.app.ticker = m.props.raf]

\* new Application({ width, height, view: this._canvas, ...options, autoDensity: false })
newApplication(m) ==
  [Emit(m, "new Application") EXCEPT
     !.app = [state |-> "live", id |-> m.self, ticker |-> TRUE,
              resolution |-> IF Truthy(OptResolution(m.props.options))
                               THEN OptResolution(m.props.options) ELSE Num(1),
              width |-> m.props.width, height |-> m.props.height,
              interaction |-> 0, styleWidth |-> 0, styleHeight |-> 0]]

\* this.mountNode = PixiFiber.createContainer(this.app.stage)
\* PixiFiber.updateContainer(this.getChildren(), this.mountNode, this)
mountRoot(m, fresh) ==
  LET m0 == createContainer(m, fresh)
  IN  updateContainer(m0, getChildren(m0))

\* onMount(this.app)
onMount(m) == Emit(m, "onMount")

\* window.matchMedia: the Stage runs in a browser, which has it
matchMedia == TRUE

\* this._mediaQuery = window.matchMedia(...); this._mediaQuery.addListener(this.updateSize)
addMediaQuery(m) ==
  IF m.threw THEN m
  ELSE IF /\ hasAutoDensity(OptAutoDensity(m.props.options))
          /\ matchMedia
          /\ ~Truthy(OptResolution(m.props.options))
    THEN [Emit(m, "mediaQuery.addListener") EXCEPT !.mediaQuery = TRUE]
    ELSE m

\* window.addEventListener('__REACT_PIXI_REQUEST_RENDER__', this.renderStage)
addRenderListener(m) ==
  IF m.threw THEN m
  ELSE IF m.props.renderOnComponentChange /\ ~m.props.raf
    THEN [Emit(m, "addEventListener") EXCEPT !.listening = TRUE]
    ELSE m

\* componentDidMount() with onMount called before the root container exists
componentDidMountCallbackFirst(m, fresh, devicePixelRatio) ==
  LET m0 == [m EXCEPT !.trace = <<"componentDidMount">>, !.threw = FALSE]
      m1 == setTicker(newApplication(m0))
      m2 == onMount(Emit(m1, "injectDevtools"))
      m3 == mountRoot(m2, fresh)
      m4 == addRenderListener(addMediaQuery(m3))
      m5 == updateSize(m4, devicePixelRatio)
  IN  renderStage(m5)

\* componentDidMount()
componentDidMount(m, fresh, devicePixelRatio) ==
  LET m0 == [m EXCEPT !.trace = <<"componentDidMount">>, !.threw = FALSE]
      m1 == setTicker(newApplication(m0))
      m2 == mountRoot(m1, fresh)
      m3 == onMount(Emit(m2, "injectDevtools"))
      m4 == addRenderListener(addMediaQuery(m3))
      m5 == updateSize(m4, devicePixelRatio)
  IN  renderStage(m5)

\* lines 155-159: update resolution
updateResolution(m, prevProps) ==
  IF m.threw THEN m
  ELSE IF ~Truthy(OptResolution(m.props.options)) THEN m
  \* prevProps?.options.resolution: a property read on undefined
  ELSE IF ~prevProps.options.present THEN Throw(m)
  ELSE IF prevProps.options.resolution # OptResolution(m.props.options)
    THEN resetInteractionManager(setResolution(m, m.props.options.resolution))
    ELSE m

\* update size on every update
updateSizeAlways(m, prevProps, devicePixelRatio) == updateSize(m, devicePixelRatio)

\* lines 161-168: update size
updateSizeOnChange(m, prevProps, devicePixelRatio) ==
  IF m.threw THEN m
  ELSE IF \/ prevProps.height # m.props.height
          \/ prevProps.width # m.props.width
          \/ OptResolution(prevProps.options) # OptResolution(m.props.options)
    THEN updateSize(m, devicePixelRatio)
    ELSE m

\* lines 170-173: handle raf change
updateTicker(m, prevProps) ==
  IF m.threw THEN m
  ELSE IF prevProps.raf # m.props.raf THEN setTicker(m) ELSE m

\* flush fiber into a root container created anew
flushFiberNewRoot(m, prevProps) ==
  LET m0 == createContainer(m, IF m.mountNode = <<>> THEN 1 ELSE m.mountNode[1] + 1)
  IN  updateContainer(m0, getChildren(m0))

\* flush fiber only when the children changed
flushFiberIfChildrenChanged(m, prevProps) ==
  IF prevProps.children # m.props.children THEN updateContainer(m, getChildren(m)) ELSE m

\* lines 175-176: flush fiber
flushFiber(m, prevProps) == updateContainer(m, getChildren(m))

\* the condition of lines 178-184 without the raf comparison
propsChangedIgnoringRaf(prevProps, props) ==
  \/ prevProps.width # props.width
  \/ prevProps.height # props.height
  \/ prevProps.renderOnComponentChange # props.renderOnComponentChange
  \/ prevProps.options.id # props.options.id

\* the condition of lines 178-184
propsChanged(prevProps, props) ==
  \/ prevProps.width # props.width
  \/ prevProps.height # props.height
  \/ prevProps.raf # props.raf
  \/ prevProps.renderOnComponentChange # props.renderOnComponentChange
  \/ prevProps.options.id # props.options.id

\* lines 178-186
renderOnChange(m, prevProps) ==
  IF m.threw THEN m
  ELSE IF propsChanged(prevProps, m.props) THEN renderStage(m) ELSE m

\* componentDidUpdate(prevProps, prevState, prevContext); this.props is `props`
componentDidUpdate(m, props, devicePixelRatio) ==
  LET prevProps == m.props
      m0 == [m EXCEPT !.props = props, !.trace = <<"componentDidUpdate">>, !.threw = FALSE]
      m1 == updateResolution(m0, prevProps)
      m2 == updateSizeOnChange(m1, prevProps, devicePixelRatio)
      m3 == updateTicker(m2, prevProps)
      m4 == flushFiber(m3, prevProps)
  IN  renderOnChange(m4, prevProps)

\* this.props.onUnmount(this.app)
onUnmount(m) ==
  [Emit(m, IF AppLive(m) THEN "onUnmount(app)" ELSE "onUnmount(no app)") EXCEPT
     !.onUnmountCalls = @ + 1]

\* the renderStage listener left registered on unmount
keepRenderListener(m) == m

\* window.removeEventListener('__REACT_PIXI_REQUEST_RENDER__', this.renderStage)
removeRenderListener(m) ==
  IF m.threw THEN m ELSE [Emit(m, "removeEventListener") EXCEPT !.listening = FALSE]

\* the updateSize listener left registered on unmount
keepMediaQuery(m) == m

\* if (this._mediaQuery) { removeListener; this._mediaQuery = null }
removeMediaQuery(m) ==
  IF m.threw THEN m
  ELSE IF m.mediaQuery
    THEN [Emit(m, "mediaQuery.removeListener") EXCEPT !.mediaQuery = FALSE]
    ELSE m

\* this.app.destroy(): stops the ticker, destroys stage and renderer; on an
\* application that is already destroyed the call is made and throws
destroyApp(m) ==
  IF m.threw THEN m
  ELSE IF m.app.state = "null" THEN Throw(m)
  ELSE IF m.app.state = "destroyed"
    THEN Throw([Emit(m, "app.destroy") EXCEPT !.destroyCalls = @ + 1])
  ELSE [Emit(m, "app.destroy") EXCEPT
          !.destroyCalls = @ + 1, !.app.state = "destroyed", !.app.ticker = FALSE]

\* lines 229-238: everything componentWillUnmount does before the last draw
teardown(m) ==
  LET m1 == removeRenderListener(onUnmount(m))
      m2 == updateContainer(m1, NullTree)
  IN  removeMediaQuery(m2)

\* componentWillUnmount()
componentWillUnmount(m) ==
  LET m0 == [m EXCEPT !.trace = <<"componentWillUnmount">>, !.threw = FALSE]
  IN  destroyApp(renderStage(teardown(m0)))

\* ------------------------------------------------- propTypes, getCanvasProps
\* el instanceof HTMLElement
InstanceOfHTMLElement(el) == el \in {"HTMLDivElement", "HTMLCanvasElement"}

\* invariant(condition, message): throws when the condition is false
invariant(condition) == IF condition THEN "returns" ELSE "Invariant Violation"

\* propTypes.options.resizeTo: (props, propName, componentName) => { ... }
resizeTo(el) == invariant(el # "window" /\ ~InstanceOfHTMLElement(el))

\* an object is the sequence of its entries <<name, value>>, in insertion order
ObjectKeys(obj) == [i \in DOMAIN obj |-> obj[i][1]]

HasKey(obj, k) == \E i \in DOMAIN obj : obj[i][1] = k

\* obj[k]
Get(obj, k) == obj[CHOOSE i \in DOMAIN obj : obj[i][1] = k][2]

\* { ...all, [prop]: value }
Spread(all, prop, value) ==
  IF HasKey(all, prop)
    THEN [i \in DOMAIN all |-> IF all[i][1] = prop THEN <<prop, value>> ELSE all[i]]
    ELSE Append(all, <<prop, value>>)

\* const reserved = [...Object.keys(propTypes), ...Object.keys(PROPS_DISPLAY_OBJECT)]
reserved == PropTypeKeys \cup DisplayObjectKeys

\* keys.reduce((all, prop) => ({ ...all, [prop]: props[prop] }), {})
RECURSIVE Reduce(_, _, _)
Reduce(keys, props, all) ==
  IF keys = <<>> THEN all
  ELSE Reduce(Tail(keys), props, Spread(all, Head(keys), Get(props, Head(keys))))

\* the filter of getCanvasProps keeping the Stage's own props as well
IsNotDisplayObjectKey(p) == p \notin DisplayObjectKeys

\* .filter(p => !reserved.includes(p))
IsNotReserved(p) == p \notin reserved

\* export function getCanvasProps(props) { ... }
getCanvasProps(props) == Reduce(SelectSeq(ObjectKeys(props), IsNotReserved), props, <<>>)

\* window.devicePixelRatio when the page loads; it changes with the zoom level
\* or the screen (PixelRatios)
\* ------------------------------------------------------------------- state
VARIABLES
  stage,              \* the Stage instances: their fields and what they have done
  devicePixelRatio,   \* window.devicePixelRatio
  nextContainer,      \* the next root container PixiFiber.createContainer returns
  nUpdates,           \* per Stage, the updates React has delivered
  nDirect,            \* per Stage, the lifecycle methods called outside React's order
  nRatioChanges,      \* the pixel-ratio changes so far
  call                \* the arguments and results of the validator and of getCanvasProps

vars ==
  <<stage, devicePixelRatio, nextContainer, nUpdates, nDirect,
    nRatioChanges, call>>

\* defaultProps, with a children tree
defaultProps ==
  [width |-> 800, height |-> 600, raf |-> TRUE, renderOnComponentChange |-> TRUE,
   options |-> NoOptions, children |-> "A"]

\* class Stage: the instance fields after construction with `props`
NewStage(s, props) ==
  [self |-> s, phase |-> "constructed", props |-> props, app |-> NullApp,
   mountNode |-> <<>>, mediaQuery |-> FALSE, listening |-> FALSE,
   trace |-> <<>>, threw |-> FALSE, commitLog |-> <<>>, commits |-> 0, pending |-> FALSE,
   created |-> 0, onUnmountCalls |-> 0, destroyCalls |-> 0]

InitEnv ==
  /\ devicePixelRatio = 1
  /\ nextContainer = 1
  /\ nUpdates = [s \in Stages |-> 0]
  /\ nDirect = [s \in Stages |-> 0]
  /\ nRatioChanges = 0

\* no validator and no getCanvasProps call is followed
NoCall ==
  [element |-> "undefined", checked |-> "not called", props |-> <<>>, canvasProps |-> <<>>,
   applied |-> FALSE]

\* the objects of at most MaxPropsLen entries with distinct names
PropsObjects ==
  UNION {{obj \in [1..n -> PropNames \X PropValues] :
            \A i \in 1..n : \A j \in 1..n : i # j => obj[i][1] # obj[j][1]} : n \in 0..MaxPropsLen}

\* one Stage rendered by React with any props; the other is never mounted
Init ==
  /\ InitEnv
  /\ call = NoCall
  /\ \E p \in PropsDomain :
       stage = [s \in Stages |-> IF s \in Single THEN NewStage(s, p) ELSE NewStage(s, defaultProps)]

\* two Stages rendered by React
InitTwo ==
  /\ InitEnv
  /\ call = NoCall
  /\ \E p \in [Stages -> TwoPropsDomain] : stage = [s \in Stages |-> NewStage(s, p[s])]

\* one Stage rendered by React with the props of the update sequences, whose
\* lifecycle methods may also be called directly
InitAPI ==
  /\ InitEnv
  /\ call = NoCall
  /\ \E p \in SmallPropsDomain :
       stage = [s \in Stages |-> IF s \in Single THEN NewStage(s, p) ELSE NewStage(s, defaultProps)]

\* a Stage element is about to be created with options.resizeTo = element and
\* rendered with the props object `props`
InitProps ==
  /\ InitEnv
  /\ stage = [s \in Stages |-> NewStage(s, defaultProps)]
  /\ \E el \in Elements : \E obj \in PropsObjects :
       call = [NoCall EXCEPT !.element = el, !.props = obj]

\* ----------------------------------------------------------------- actions
\* React mounts the Stage: componentDidMount()
Mount(s) ==
  /\ stage[s].phase = "constructed"
  /\ stage' = [stage EXCEPT ![s] =
       [componentDidMount(stage[s], nextContainer, devicePixelRatio)
          EXCEPT !.phase = "mounted"]]
  /\ nextContainer' = nextContainer + 1
  /\ UNCHANGED <<devicePixelRatio, nUpdates, nDirect, nRatioChanges, call>>

\* React re-renders the mounted Stage with props from D, at most max times:
\* componentDidUpdate(prevProps)
Update(s, D, max) ==
  /\ stage[s].phase = "mounted"
  /\ nUpdates[s] < max
  /\ \E props \in D :
       stage' = [stage EXCEPT ![s] = componentDidUpdate(stage[s], props, devicePixelRatio)]
  /\ nUpdates' = [nUpdates EXCEPT ![s] = @ + 1]
  /\ UNCHANGED <<devicePixelRatio, nextContainer, nDirect, nRatioChanges, call>>

\* React unmounts the Stage: componentWillUnmount()
Unmount(s) ==
  /\ stage[s].phase = "mounted"
  /\ stage' = [stage EXCEPT ![s] = [componentWillUnmount(stage[s]) EXCEPT !.phase = "unmounted"]]
  /\ UNCHANGED <<devicePixelRatio, nextContainer, nUpdates, nDirect,
                 nRatioChanges, call>>

\* the listener call of one '__REACT_PIXI_REQUEST_RENDER__' event: renderStage
onRequestRender(m) ==
  IF m.listening
    THEN renderStage([m EXCEPT !.trace = <<"__REACT_PIXI_REQUEST_RENDER__">>, !.threw = FALSE])
    ELSE m

\* the '__REACT_PIXI_REQUEST_RENDER__' event a commit of root o asked for is
\* dispatched on window: every registered renderStage listener runs
RequestRender(o) ==
  /\ stage[o].pending
  /\ stage' = [s \in Stages |->
       [onRequestRender(stage[s]) EXCEPT !.pending = IF s = o THEN FALSE ELSE @]]
  /\ UNCHANGED <<devicePixelRatio, nextContainer, nUpdates, nDirect, nRatioChanges, call>>

\* the listener call of one media-query change: updateSize
onMediaQueryChange(m, ratio) ==
  IF m.mediaQuery
    THEN updateSize([m EXCEPT !.trace = <<"mediaQuery change">>, !.threw = FALSE], ratio)
    ELSE m

\* the device pixel ratio changes: every registered media-query listener runs
PixelRatioChange ==
  /\ nRatioChanges < MaxRatioChanges
  /\ \E s \in Stages : stage[s].phase # "constructed"
  /\ \E ratio \in PixelRatios \ {devicePixelRatio} :
       /\ devicePixelRatio' = ratio
       /\ stage' = [s \in Stages |-> onMediaQueryChange(stage[s], ratio)]
  /\ nRatioChanges' = nRatioChanges + 1
  /\ UNCHANGED <<nextContainer, nUpdates, nDirect, call>>

\* componentDidUpdate(prevProps) called on a Stage that is not mounted
DirectUpdate(s, D) ==
  /\ stage[s].phase # "mounted"
  /\ nDirect[s] < MaxDirectCalls
  /\ \E props \in D :
       stage' = [stage EXCEPT ![s] = componentDidUpdate(stage[s], props, devicePixelRatio)]
  /\ nDirect' = [nDirect EXCEPT ![s] = @ + 1]
  /\ UNCHANGED <<devicePixelRatio, nextContainer, nUpdates, nRatioChanges, call>>

\* componentWillUnmount() called again on a Stage that has been unmounted
DirectUnmount(s) ==
  /\ stage[s].phase = "unmounted"
  /\ nDirect[s] < MaxDirectCalls
  /\ stage' = [stage EXCEPT ![s] = componentWillUnmount(stage[s])]
  /\ nDirect' = [nDirect EXCEPT ![s] = @ + 1]
  /\ UNCHANGED <<devicePixelRatio, nextContainer, nUpdates, nRatioChanges, call>>

\* React checks the options prop: the resizeTo validator runs
CheckResizeTo ==
  /\ call.checked = "not called"
  /\ call' = [call EXCEPT !.checked = resizeTo(call.element)]
  /\ UNCHANGED <<stage, devicePixelRatio, nextContainer, nUpdates, nDirect, nRatioChanges>>

\* render(): <canvas {...getCanvasProps(this.props)} />
RenderCanvas ==
  /\ ~call.applied
  /\ call' = [call EXCEPT !.canvasProps = getCanvasProps(call.props), !.applied = TRUE]
  /\ UNCHANGED <<stage, devicePixelRatio, nextContainer, nUpdates, nDirect, nRatioChanges>>

\* ---------------------------------------------------------- specifications
Next ==
  \/ \E s \in Single : Mount(s)
  \/ \E s \in Single : Update(s, PropsDomain, MaxUpdates)
  \/ \E s \in Single : Unmount(s)
  \/ \E o \in Stages : RequestRender(o)
  \/ PixelRatioChange

Spec == Init /\ [][Next]_vars

\* one Stage under React, a sequence of updates
NextSeq ==
  \/ \E s \in Single : Mount(s)
  \/ \E s \in Single : Update(s, SmallPropsDomain, MaxUpdatesSeq)
  \/ \E s \in Single : Unmount(s)
  \/ \E o \in Stages : RequestRender(o)
  \/ PixelRatioChange

SpecSeq == InitAPI /\ [][NextSeq]_vars

NextTwo ==
  \/ \E s \in Stages : Mount(s)
  \/ \E s \in Stages : Update(s, TwoPropsDomain, MaxUpdatesTwo)
  \/ \E s \in Stages : Unmount(s)
  \/ \E o \in Stages : RequestRender(o)
  \/ PixelRatioChange

SpecTwo == InitTwo /\ [][NextTwo]_vars

NextAPI ==
  \/ \E s \in Single : Mount(s)
  \/ \E s \in Single : Update(s, SmallPropsDomain, MaxUpdates)
  \/ \E s \in Single : Unmount(s)
  \/ \E o \in Stages : RequestRender(o)
  \/ PixelRatioChange
  \/ \E s \in Single : DirectUpdate(s, SmallPropsDomain)
  \/ \E s \in Single : DirectUnmount(s)

SpecAPI == InitAPI /\ [][NextAPI]_vars

\* the validator and getCanvasProps applied to their arguments
NextProps ==
  \/ CheckResizeTo
  \/ RenderCanvas

SpecProps == InitProps /\ [][NextProps]_vars

TypeOK ==
  /\ \A s \in Stages : stage[s].phase \in {"constructed", "mounted", "unmounted"}
  /\ devicePixelRatio \in PixelRatios

\* ------------------------------------------------------ reading a trace
Has(tr, e) == \E i \in DOMAIN tr : tr[i] = e

Count(tr, e) == Cardinality({i \in DOMAIN tr : tr[i] = e})

\* the position of the first e in tr, 0 when there is none
Pos(tr, e) == IF Has(tr, e) THEN CHOOSE i \in DOMAIN tr : tr[i] = e /\ \A j \in 1..(i - 1) : tr[j] # e ELSE 0

Ran(m, method) == m.trace # <<>> /\ m.trace[1] = method

LastCommit(m) == m.commitLog[Len(m.commitLog)]

\* ------------------------------------------------------------------ claims

\* C1: on mount the Stage creates the root container and commits the initial
\* children tree to it before onMount is called and before the first size
\* update and manual render; no commit happens before the root container exists.
C1_MountCommitsFirst ==
  \A s \in Stages :
    LET m == stage[s]
        tr == m.trace
    IN  /\ m.commits > 0 => m.created > 0 /\ m.mountNode # <<>>
        /\ Ran(m, "componentDidMount") =>
             /\ 0 < Pos(tr, "createContainer")
             /\ Pos(tr, "createContainer") < Pos(tr, "updateContainer")
             /\ Pos(tr, "updateContainer") < Pos(tr, "onMount")
             /\ Pos(tr, "onMount") < Pos(tr, "updateSize")
             /\ Pos(tr, "updateSize") < Pos(tr, "renderStage")
             /\ m.commits = 1
             /\ m.commitLog = <<[container |-> m.mountNode[1], tree |-> getChildren(m)]>>

\* C1 witness: a Stage that has just been mounted, its first tree committed
C1_Witness ==
  \E s \in Stages :
    /\ Ran(stage[s], "componentDidMount")
    /\ stage[s].phase = "mounted"
    /\ stage[s].commits = 1
    /\ Has(stage[s].trace, "renderer.render")

\* C2: after each update of a mounted Stage the tree most recently handed to
\* the root container is the current children tree, whichever props changed.
C2_CommittedIsCurrent ==
  \A s \in Stages :
    stage[s].phase = "mounted" =>
      /\ stage[s].commits > 0
      /\ LastCommit(stage[s]).tree = getChildren(stage[s])

\* C3, in every state: componentWillUnmount hands the application to onUnmount
\* first, commits the empty tree and only then destroys the application, last.
C3_UnmountOrder ==
  \A s \in Stages :
    LET m == stage[s]
        tr == m.trace
    IN  Ran(m, "componentWillUnmount") =>
          /\ tr[2] = "onUnmount(app)"
          /\ 0 < Pos(tr, "updateContainer")
          /\ Pos(tr, "updateContainer") < Pos(tr, "app.destroy")
          /\ Pos(tr, "app.destroy") = Len(tr)
          /\ LastCommit(m).tree = NullTree
          /\ m.app.state = "destroyed"
          /\ m.destroyCalls = 1

\* C3, in every step: once the application is destroyed no callback of the
\* Stage runs, nothing is committed and the application is not touched.
C3_NothingAfterDestroy ==
  \A s \in Stages :
    stage[s].app.state = "destroyed" =>
      /\ stage'[s].app = stage[s].app
      /\ stage'[s].trace = stage[s].trace
      /\ stage'[s].commits = stage[s].commits

\* C3: on unmount the empty tree is committed before the application is
\* destroyed, onUnmount receives the application before any teardown step, and
\* nothing touches the application after app.destroy().
C3_UnmountTeardown == []C3_UnmountOrder /\ [][C3_NothingAfterDestroy]_vars

\* C3 witness: an unmounted Stage whose application is destroyed while a
\* redraw request of its last commit is still to be dispatched
C3_Witness ==
  \E s \in Stages :
    /\ stage[s].phase = "unmounted"
    /\ stage[s].app.state = "destroyed"
    /\ stage[s].pending
    /\ Ran(stage[s], "componentWillUnmount")

\* C4: an update delivered to a Stage that is not mounted fails with an error
\* and performs no commit, no resize and no render.
C4_UpdateOnlyWhileMounted ==
  [][\A s \in Stages :
       (nDirect'[s] # nDirect[s] /\ Ran(stage'[s], "componentDidUpdate")) =>
         /\ stage'[s].threw
         /\ stage'[s].commits = stage[s].commits
         /\ ~Has(stage'[s].trace, "renderer.resize")
         /\ ~Has(stage'[s].trace, "renderer.render")]_vars

\* C5: a second unmount has no effect: the application is destroyed exactly
\* once and onUnmount is invoked exactly once per mounted Stage.
C5_UnmountOnce ==
  \A s \in Stages :
    /\ stage[s].onUnmountCalls <= 1
    /\ stage[s].destroyCalls <= 1
    /\ stage[s].phase = "unmounted" => stage[s].onUnmountCalls = 1 /\ stage[s].destroyCalls = 1

\* C6, in every state: the root container is created on mount, once, and every
\* commit in the log went to it.
C6_OneContainer ==
  \A s \in Stages :
    LET m == stage[s]
    IN  /\ m.created <= 1
        /\ m.phase = "constructed" => m.created = 0 /\ m.mountNode = <<>> /\ m.commits = 0
        /\ m.phase # "constructed" => m.created = 1 /\ m.mountNode # <<>>
        /\ \A i \in DOMAIN m.commitLog : m.commitLog[i].container = m.mountNode[1]

\* C6, in every step: an existing root container is never replaced, and a new
\* commit goes to it.
C6_ContainerKept ==
  \A s \in Stages :
    stage[s].mountNode # <<>> =>
      /\ stage'[s].mountNode = stage[s].mountNode
      /\ stage'[s].created = stage[s].created
      /\ stage'[s].commits > stage[s].commits =>
           LastCommit(stage'[s]).container = stage[s].mountNode[1]

\* C6: each Stage has exactly one root container for its whole life: created
\* once on mount, never re-created by an update, and the target of every commit
\* on mount, update and unmount.
C6_SingleRootContainer == []C6_OneContainer /\ [][C6_ContainerKept]_vars

\* C6 witness: an unmounted Stage after two updates, all its commits in one
\* container
C6_Witness ==
  \E s \in Stages :
    /\ stage[s].phase = "unmounted"
    /\ nUpdates[s] = 2
    /\ stage[s].commits = 4
    /\ stage[s].created = 1

\* the lifecycle method that ran last issued a commit to the root container
Committed(m) ==
  /\ Ran(m, "componentDidMount") \/ Ran(m, "componentDidUpdate") \/ Ran(m, "componentWillUnmount")
  /\ Has(m.trace, "updateContainer")
  /\ Pos(m.trace, "updateContainer") < Len(m.trace) => m.trace[Pos(m.trace, "updateContainer") + 1] # "TypeError"

\* the renderStage calls of a method before and after its commit
RedrawsBefore(tr) == Cardinality({i \in DOMAIN tr : tr[i] = "renderStage" /\ i < Pos(tr, "updateContainer")})

RedrawsAfter(tr) == Cardinality({i \in DOMAIN tr : tr[i] = "renderStage" /\ i > Pos(tr, "updateContainer")})

\* C7 as stated: for every commit the Stage issues on mount, on update and on
\* unmount exactly one redraw request (renderStage) follows it, never zero and
\* never before the commit.
C7_OneRedrawPerCommit ==
  \A s \in Stages :
    Committed(stage[s]) =>
      /\ RedrawsBefore(stage[s].trace) = 0
      /\ RedrawsAfter(stage[s].trace) = 1

\* C7 amended, in every state: no redraw request precedes the commit and at
\* most one follows it; exactly one follows it on mount and on unmount.
C7_RedrawFollowsCommit ==
  \A s \in Stages :
    Committed(stage[s]) =>
      /\ RedrawsBefore(stage[s].trace) = 0
      /\ RedrawsAfter(stage[s].trace) <= 1
      /\ ~Ran(stage[s], "componentDidUpdate") => RedrawsAfter(stage[s].trace) = 1

\* C7 amended, in every step: the commit of an update is followed by a redraw
\* request exactly when width, height, raf, renderOnComponentChange or the
\* options object changed.
C7_RedrawOnPropChange ==
  \A s \in Stages :
    (nUpdates'[s] = nUpdates[s] + 1 /\ Committed(stage'[s])) =>
      LET prev == stage[s].props
          cur == stage'[s].props
      IN  RedrawsAfter(stage'[s].trace) = 1 <=>
            \/ prev.width # cur.width
            \/ prev.height # cur.height
            \/ prev.raf # cur.raf
            \/ prev.renderOnComponentChange # cur.renderOnComponentChange
            \/ prev.options # cur.options

\* C7 amended: after each commit at most one redraw request follows and none
\* precedes it: exactly one on mount and on unmount, and on an update exactly
\* one when width, height, raf, renderOnComponentChange or options changed and
\* none when only the children changed.
C7_RedrawAfterCommit == []C7_RedrawFollowsCommit /\ [][C7_RedrawOnPropChange]_vars

\* C7 witness: an update that committed and asked for no redraw
C7_Witness ==
  \E s \in Stages :
    /\ Ran(stage[s], "componentDidUpdate")
    /\ Committed(stage[s])
    /\ ~Has(stage[s].trace, "renderStage")

Dispatched(o) == stage[o].pending /\ ~stage'[o].pending

\* a lifecycle method of Stage s runs in this step
Lifecycle(s) == stage'[s].phase # stage[s].phase \/ nUpdates'[s] # nUpdates[s]

\* C9: two mounted Stages are isolated: a redraw request from a commit on one
\* root never draws the other root's stage, and mounting, updating or
\* unmounting one Stage leaves the other's subscription, ticker and renderer
\* unchanged.
C9_RootsIsolated ==
  [][\A o \in Stages : \A s \in Stages \ {o} :
       /\ Dispatched(o) =>
            ~(stage[s].listening /\ Has(stage'[s].trace, "renderer.render"))
       /\ Lifecycle(o) =>
            /\ stage'[s].listening = stage[s].listening
            /\ stage'[s].mediaQuery = stage[s].mediaQuery
            /\ stage'[s].app = stage[s].app]_vars

\* C10: in every state after mount the ticker runs if and only if the current
\* raf prop is true, and the Stage draws by hand only when raf is false and
\* renderOnComponentChange is true.
C10_TickerFollowsRaf ==
  \A s \in Stages :
    stage[s].phase = "mounted" =>
      /\ stage[s].app.ticker <=> stage[s].props.raf
      /\ Has(stage[s].trace, "renderer.render") =>
           ~stage[s].props.raf /\ stage[s].props.renderOnComponentChange

\* C11: the resizeTo validator accepts a value that is the window or an
\* HTMLElement and rejects any other value with an invariant violation.
C11_ResizeToAcceptsElements ==
  call.checked # "not called" =>
    (call.checked = "returns" <=>
       call.element = "window" \/ call.element \in {"HTMLDivElement", "HTMLCanvasElement"})

\* C12: while mounted the Stage is subscribed to the redraw-request event
\* exactly when raf is false and renderOnComponentChange is true under the
\* current props, so a redraw request in that configuration draws the stage.
C12_SubscribedWhenManual ==
  \A s \in Stages :
    stage[s].phase = "mounted" =>
      (stage[s].listening <=> ~stage[s].props.raf /\ stage[s].props.renderOnComponentChange)

\* C13: componentDidUpdate completes without throwing for every combination of
\* previous and next options, applies a new options.resolution and commits the
\* children tree.
C13_UpdateNeverThrows ==
  \A s \in Stages :
    (stage[s].phase = "mounted" /\ Ran(stage[s], "componentDidUpdate")) =>
      /\ ~stage[s].threw
      /\ Has(stage[s].trace, "updateContainer")
      /\ Truthy(OptResolution(stage[s].props.options)) =>
           stage[s].app.resolution = stage[s].props.options.resolution

\* every assignment of the renderer's resolution in the trace is followed by
\* the destruction of the interaction manager and the creation of a new one
ResolutionResetsInteraction(tr) ==
  \A i \in DOMAIN tr :
    tr[i] = "renderer.resolution=" =>
      /\ i + 2 <= Len(tr)
      /\ tr[i + 1] = "interaction.destroy"
      /\ tr[i + 2] = "new InteractionManager"

\* C14: after mount and after every update the renderer's resolution is
\* options.resolution when that is given and window.devicePixelRatio otherwise,
\* and every assignment of the resolution replaces the interaction manager.
C14_ResolutionFollowsOptions ==
  [][\A s \in Stages :
       LET n == stage'[s]
       IN  (\/ stage[s].phase = "constructed" /\ n.phase = "mounted"
            \/ nUpdates'[s] = nUpdates[s] + 1) =>
             /\ n.app.resolution =
                  IF Truthy(OptResolution(n.props.options))
                    THEN n.props.options.resolution ELSE Num(devicePixelRatio')
             /\ ResolutionResetsInteraction(n.trace)]_vars

\* C15: an update with width, height, raf, renderOnComponentChange and options
\* unchanged leaves the renderer, the interaction manager, the ticker and the
\* listeners as they were and draws nothing: it only hands the children tree
\* to the root container.
C15_ChildrenOnlyUpdate ==
  [][\A s \in Stages :
       LET m == stage[s]
           n == stage'[s]
       IN  (/\ nUpdates'[s] = nUpdates[s] + 1
            /\ n.props.width = m.props.width
            /\ n.props.height = m.props.height
            /\ n.props.raf = m.props.raf
            /\ n.props.renderOnComponentChange = m.props.renderOnComponentChange
            /\ n.props.options = m.props.options) =>
             /\ n.app = m.app
             /\ n.listening = m.listening
             /\ n.mediaQuery = m.mediaQuery
             /\ n.mountNode = m.mountNode
             /\ ~n.threw
             /\ n.trace = <<"componentDidUpdate", "updateContainer">>
             /\ n.commits = m.commits + 1
             /\ LastCommit(n).tree = getChildren(n)]_vars

\* C15 witness: an update that changed the children only, after the pixel
\* ratio had changed
C15_Witness ==
  \E s \in Stages :
    /\ nUpdates[s] = 1
    /\ stage[s].trace = <<"componentDidUpdate", "updateContainer">>
    /\ stage[s].props.children = "B"
    /\ LastCommit(stage[s]).tree.children = "B"
    /\ nRatioChanges = 1

\* C16, in every state: an unmounted Stage has neither listener registered.
C16_NoListenerLeft ==
  \A s \in Stages :
    stage[s].phase = "unmounted" => ~stage[s].listening /\ ~stage[s].mediaQuery

\* C16, in every step: no event reaches an unmounted Stage.
C16_NoCallbackRuns ==
  \A s \in Stages :
    (stage[s].phase = "unmounted" /\ stage'[s].phase = "unmounted") =>
      /\ stage'[s].trace = stage[s].trace
      /\ stage'[s].app = stage[s].app
      /\ ~stage'[s].listening /\ ~stage'[s].mediaQuery

\* C16: after unmount no callback of the Stage remains registered: the
\* redraw-request listener and the media-query listener are removed, so no
\* later redraw request or pixel-ratio change calls renderStage or updateSize
\* on the destroyed application.
C16_ListenersRemoved == []C16_NoListenerLeft /\ [][C16_NoCallbackRuns]_vars

\* C16 witness: a Stage that had both listeners, unmounted, after which its
\* last redraw request was dispatched and the pixel ratio had changed
C16_Witness ==
  \E s \in Stages :
    /\ stage[s].phase = "unmounted"
    /\ Has(stage[s].trace, "mediaQuery.removeListener")
    /\ ~stage[s].props.raf /\ stage[s].props.renderOnComponentChange
    /\ ~stage[s].pending
    /\ nRatioChanges = 1

\* C17: getCanvasProps(props) returns exactly the entries of props whose names
\* are neither a Stage prop-type name nor a display-object prop name, each with
\* its value, and no other key.
C17_CanvasPropsAreTheRest ==
  call.applied =>
    LET out == call.canvasProps
        in == call.props
    IN  /\ \A i \in DOMAIN out :
             /\ out[i][1] \notin PropTypeKeys
             /\ out[i][1] \notin DisplayObjectKeys
             /\ \E j \in DOMAIN in : in[j] = out[i]
             /\ \A k \in DOMAIN out : k # i => out[k][1] # out[i][1]
        /\ \A j \in DOMAIN in :
             (in[j][1] \notin PropTypeKeys /\ in[j][1] \notin DisplayObjectKeys) =>
               \E i \in DOMAIN out : out[i] = in[j]

\* C17 witness: a props object with a Stage prop, a display-object prop and
\* another prop, of which getCanvasProps kept the last
C17_Witness ==
  /\ call.applied
  /\ Len(call.props) = 3
  /\ HasKey(call.props, "width") /\ HasKey(call.props, "x") /\ HasKey(call.props, "className")
  /\ Len(call.canvasProps) = 1
  /\ call.canvasProps[1][1] = "className"

====
